---- MODULE Spec2Model ----
(***************************************************************************)
(* Terraform resources aws_imagebuilder_image and                          *)
(* aws_imagebuilder_container_recipe: the Create / Read / Update / Delete  *)
(* callbacks, their remote calls, and the expand / flatten helpers.        *)
(*                                                                         *)
(* Conventions.  A Go *string is a string; the nil pointer is NilStr.      *)
(* A Go pointer to a struct, a slice or a map is a record with a field     *)
(* "nil".  d is the schema.ResourceData handed to a callback.              *)
(***************************************************************************)
EXTENDS Integers, Sequences, FiniteSets, TLC

VARIABLES
    resourceType,   \* which schema.Resource the ResourceData d belongs to
    ignoreTags,     \* meta.(*AWSClient).IgnoreTagsConfig
    d,              \* schema.ResourceData: [id, isNew, attrs]
    config,         \* the configuration handed to the callback, if it is Create
    op,             \* the callback running or last run
    pc,             \* position inside the callback ("idle" between callbacks)
    calls,          \* remote calls made by the callback, in order
    ret,            \* what the callback returned
    resp,           \* response of the callback's get call
    elapsed,        \* minutes since the waiter was called
    status,         \* the image status the waiter saw last
    fn,             \* helper last applied (helper specification)
    arg,            \* its argument
    out             \* its result

vars == <<resourceType, ignoreTags, d, config, op, pc, calls, ret, resp,
          elapsed, status, fn, arg, out>>

resVars == <<resourceType, ignoreTags, d, config, op, pc, calls, ret, resp, elapsed, status>>
fnVars == <<fn, arg, out>>

---------------------------------------------------------------------------
(* Bounds *)

\* API objects differing in every scalar field: versions 1..MaxVersion
MaxVersion == 2
\* minutes the waiter sleeps between two polls
PollMinutes == 20
\* longest list handed to a flatten helper
MaxLen == 2

---------------------------------------------------------------------------
(* Pointers and strings *)

NilStr == "<nil>"

\* aws.StringValue
StringValue(p) == IF p = NilStr THEN "" ELSE p

\* aws.String
String(v) == v

\* aws.Bool / aws.BoolValue on the encodings "<nil>", "true", "false"
Bool(b) == IF b THEN "true" ELSE "false"

BoolValue(p) == p = "true"

\* strings.HasPrefix
HasPrefix(s, p) == Len(s) >= Len(p) /\ SubSeq(s, 1, Len(p)) = p

\* a Go map as a TLA+ function; the nil map and the empty map both read as empty
EmptyMap == <<>>

Restrict(m, keys) == [k \in keys |-> m[k]]

---------------------------------------------------------------------------
(* keyvaluetags *)

AwsTagKeyPrefix == "aws:"

\* KeyValueTags.IgnoreAws: drops the keys carrying the AWS system prefix
IgnoreAws(tags) ==
    Restrict(tags, {k \in DOMAIN tags : ~HasPrefix(k, AwsTagKeyPrefix)})

\* KeyValueTags.IgnoreConfig: drops the keys the provider is configured to ignore
IgnoreConfig(tags, cfg) ==
    Restrict(tags, {k \in DOMAIN tags :
                      /\ k \notin cfg.Keys
                      /\ \A p \in cfg.KeyPrefixes : ~HasPrefix(k, p)})

\* tag maps of a configuration or a plan
TagMaps == { [k \in ks |-> "v"] : ks \in {{}, {"Name"}} }

\* tags the service reports on API object number v: with a system tag, with a tag
\* the provider may be configured to ignore, with neither
ResponseTags(v) ==
    [k \in (CASE v % 3 = 1 -> {"Name", "aws:createdBy"}
              [] v % 3 = 2 -> {"Name", "tf:ignored"}
              [] OTHER -> {"Name"}) |-> "v" \o ToString(v)]

IgnoreTagsConfigs ==
    { [Keys |-> {}, KeyPrefixes |-> {}], [Keys |-> {}, KeyPrefixes |-> {"tf:"}] }

---------------------------------------------------------------------------
(* Expand / flatten helpers of the container recipe's target repository *)

NilTargetRepository == [nil |-> TRUE, RepositoryName |-> NilStr, Service |-> NilStr]

NilTfMap == [nil |-> TRUE, kv |-> EmptyMap]

\* tfMap[key].(string): the value and whether the key holds a string
HasString(tfMap, key) == key \in DOMAIN tfMap.kv

expandImageBuilderTargetContainerRepositoryKeepEmpty(tfMap) ==
    IF tfMap.nil THEN NilTargetRepository
    ELSE [nil |-> FALSE,
          RepositoryName |-> IF HasString(tfMap, "repository_name")
                             THEN String(tfMap.kv["repository_name"]) ELSE NilStr,
          Service |-> IF HasString(tfMap, "service")
                      THEN String(tfMap.kv["service"]) ELSE NilStr]

expandImageBuilderTargetContainerRepository(tfMap) ==
    IF tfMap.nil THEN NilTargetRepository
    ELSE [nil |-> FALSE,
          RepositoryName |->
              IF HasString(tfMap, "repository_name") /\ tfMap.kv["repository_name"] # ""
              THEN String(tfMap.kv["repository_name"]) ELSE NilStr,
          Service |->
              IF HasString(tfMap, "service") /\ tfMap.kv["service"] # ""
              THEN String(tfMap.kv["service"]) ELSE NilStr]

\* the keys a flatten helper writes: those whose API field is not nil
SetFields(apiObject, fields) == {f \in DOMAIN fields : apiObject[fields[f]] # NilStr}

TargetRepositoryFields ==
    [repository_name |-> "RepositoryName", service |-> "Service"]

flattenImageBuilderTargetContainerRepository(apiObject) ==
    IF apiObject.nil THEN NilTfMap
    ELSE [nil |-> FALSE,
          kv |-> [k \in SetFields(apiObject, TargetRepositoryFields) |->
                    StringValue(apiObject[TargetRepositoryFields[k]])]]

---------------------------------------------------------------------------
(* Flatten helpers of the image's output resources *)

NilList == [nil |-> TRUE, elems |-> <<>>]

\* append on a possibly nil slice
Append1(list, e) == [nil |-> FALSE, elems |-> Append(list.elems, e)]

AmiFields ==
    [account_id |-> "AccountId", description |-> "Description", image |-> "Image",
     name |-> "Name", region |-> "Region"]

NilAmi ==
    [nil |-> TRUE, AccountId |-> NilStr, Description |-> NilStr, Image |-> NilStr,
     Name |-> NilStr, Region |-> NilStr]

flattenImageBuilderAmi(apiObject) ==
    IF apiObject.nil THEN NilTfMap
    ELSE [nil |-> FALSE,
          kv |-> [k \in SetFields(apiObject, AmiFields) |->
                    StringValue(apiObject[AmiFields[k]])]]

RECURSIVE AmisLoop(_, _)
\* for _, apiObject := range apiObjects { if nil continue; append(flatten(apiObject)) }
AmisLoop(apiObjects, tfList) ==
    IF apiObjects = <<>> THEN tfList
    ELSE AmisLoop(Tail(apiObjects),
                  IF Head(apiObjects).nil THEN tfList
                  ELSE Append1(tfList, flattenImageBuilderAmi(Head(apiObjects))))

RECURSIVE AmisLoopKeepNil(_, _)
AmisLoopKeepNil(apiObjects, tfList) ==
    IF apiObjects = <<>> THEN tfList
    ELSE AmisLoopKeepNil(Tail(apiObjects),
                         Append1(tfList, flattenImageBuilderAmi(Head(apiObjects))))

flattenImageBuilderAmisKeepNil(apiObjects) ==
    IF Len(apiObjects.elems) = 0 THEN NilList
    ELSE AmisLoopKeepNil(apiObjects.elems, NilList)

flattenImageBuilderAmis(apiObjects) ==
    IF Len(apiObjects.elems) = 0 THEN NilList
    ELSE AmisLoop(apiObjects.elems, NilList)

NilStrList == [nil |-> TRUE, elems |-> <<>>]

NilContainer == [nil |-> TRUE, ImageUris |-> NilStrList, Region |-> NilStr]

\* flattenStringSet: the set of the list's non-nil strings
flattenStringSet(list) ==
    {StringValue(list.elems[i]) : i \in {j \in 1..Len(list.elems) : list.elems[j] # NilStr}}

flattenImageBuilderContainer(apiObject) ==
    IF apiObject.nil THEN NilTfMap
    ELSE [nil |-> FALSE,
          kv |-> [k \in {key \in {"image_uris", "region"} :
                            \/ key = "image_uris" /\ ~apiObject.ImageUris.nil
                            \/ key = "region" /\ apiObject.Region # NilStr} |->
                    IF k = "image_uris"
                    THEN [set |-> flattenStringSet(apiObject.ImageUris)]
                    ELSE [str |-> StringValue(apiObject.Region)]]]

RECURSIVE ContainersLoop(_, _)
ContainersLoop(apiObjects, tfList) ==
    IF apiObjects = <<>> THEN tfList
    ELSE ContainersLoop(Tail(apiObjects),
                        IF Head(apiObjects).nil THEN tfList
                        ELSE Append1(tfList, flattenImageBuilderContainer(Head(apiObjects))))

flattenImageBuilderContainers(apiObjects) ==
    IF Len(apiObjects.elems) = 0 THEN NilList
    ELSE ContainersLoop(apiObjects.elems, NilList)

NilOutputResources == [nil |-> TRUE, Amis |-> NilList, Containers |-> NilList]

flattenImageBuilderOutputResources(apiObject) ==
    IF apiObject.nil THEN NilTfMap
    ELSE [nil |-> FALSE,
          kv |-> [k \in {key \in {"amis", "containers"} :
                            \/ key = "amis" /\ ~apiObject.Amis.nil
                            \/ key = "containers" /\ ~apiObject.Containers.nil} |->
                    IF k = "amis"
                    THEN flattenImageBuilderAmis(apiObject.Amis)
                    ELSE flattenImageBuilderContainers(apiObject.Containers)]]

---------------------------------------------------------------------------
(* Errors and remote responses *)

\* the value a callback returns: done is FALSE while it is still running
NotReturned == [done |-> FALSE, err |-> FALSE, msg |-> "", cause |-> ""]

NoError == [done |-> TRUE, err |-> FALSE, msg |-> "", cause |-> ""]

\* fmt.Errorf("<msg>: %w", cause)
Errorf(msg, cause) == [done |-> TRUE, err |-> TRUE, msg |-> msg, cause |-> cause]

ErrCodeResourceNotFoundException == "ResourceNotFoundException"

\* error codes a remote call can fail with; "nil" is no error
ErrorCodes == {ErrCodeResourceNotFoundException, "ServiceException"}

\* tfawserr.ErrCodeEquals
ErrCodeEquals(err, code) == err # "nil" /\ err = code

\* a remote call as the callback made it, with what it returned
Call(api, id, input, res) ==
    [api |-> api, id |-> id, input |-> input, err |-> res.err, output |-> res.output]

\* the result of a call that returns an error only; "" while it has not returned
ErrOnly(err) == [err |-> err, output |-> [nil |-> TRUE]]

NoInput == [nil |-> TRUE]

NoResponse == [err |-> "none", output |-> [nil |-> TRUE]]

\* resource.UniqueId(): the idempotency token; no callback reads it back
UniqueId == "terraform-unique-id"

ImageType == "aws_imagebuilder_image"

ContainerRecipeType == "aws_imagebuilder_container_recipe"

\* a fresh ResourceData holding the planned configuration
NewResourceData(attrs) == [id |-> "", isNew |-> TRUE, attrs |-> attrs]

\* the framework hands Read, Update and Delete a ResourceData of an existing resource
ExistingResourceData(dd) == [dd EXCEPT !.isNew = FALSE]

\* the resource is in the Terraform state: it has an ID and was not destroyed
Tracked == d.id # "" /\ ~(op = "Delete" /\ ret = NoError)

---------------------------------------------------------------------------
(* aws_imagebuilder_image: schema, configurations and API objects *)

NilImageTestsConfiguration == [nil |-> TRUE]

\* expandImageBuilderImageTestConfiguration
expandImageBuilderImageTestConfiguration(tfMap) ==
    IF tfMap.nil THEN NilImageTestsConfiguration
    ELSE [nil |-> FALSE,
          ImageTestsEnabled |-> IF "image_tests_enabled" \in DOMAIN tfMap.kv
                                THEN tfMap.kv["image_tests_enabled"] ELSE NilStr,
          TimeoutMinutes |-> IF "timeout_minutes" \in DOMAIN tfMap.kv
                             THEN tfMap.kv["timeout_minutes"] ELSE NilStr]

ImageTestsConfigurationFields ==
    [image_tests_enabled |-> "ImageTestsEnabled", timeout_minutes |-> "TimeoutMinutes"]

\* flattenImageBuilderImageTestsConfiguration
flattenImageBuilderImageTestsConfiguration(apiObject) ==
    IF apiObject.nil THEN NilTfMap
    ELSE [nil |-> FALSE,
          kv |-> [k \in SetFields(apiObject, ImageTestsConfigurationFields) |->
                    apiObject[ImageTestsConfigurationFields[k]]]]

\* the attributes of the schema, with their zero values and defaults
ImageSchema ==
    [arn |-> "",
     container_recipe_arn |-> "",
     date_created |-> "",
     distribution_configuration_arn |-> "",
     enhanced_image_metadata_enabled |-> TRUE,
     image_recipe_arn |-> "",
     image_tests_configuration |-> NilList,
     infrastructure_configuration_arn |-> "",
     name |-> "",
     os_version |-> "",
     output_resources |-> NilList,
     platform |-> "",
     tags |-> EmptyMap,
     version |-> ""]

DefaultImageTests ==
    [nil |-> FALSE, kv |-> [image_tests_enabled |-> "true", timeout_minutes |-> "720"]]

\* configurations: infrastructure_configuration_arn is Required, the rest Optional
ImageConfigs ==
    { [ImageSchema EXCEPT
         !.infrastructure_configuration_arn = "arn:infrastructure-configuration/cfg",
         !.image_recipe_arn = IF recipe = "image" THEN "arn:image-recipe/cfg" ELSE "",
         !.container_recipe_arn = IF recipe = "container" THEN "arn:container-recipe/cfg" ELSE "",
         !.distribution_configuration_arn =
             IF recipe = "container" THEN "arn:distribution-configuration/cfg" ELSE "",
         !.enhanced_image_metadata_enabled = (recipe = "image"),
         !.image_tests_configuration =
             IF recipe = "image" THEN [nil |-> FALSE, elems |-> <<DefaultImageTests>>]
             ELSE NilList,
         !.tags = [k \in {"Name", "aws:createdBy"} |-> "v"]]
      : recipe \in {"image", "container"} }

NilRef == [nil |-> TRUE, Arn |-> NilStr]

\* an API object the image refers to, of which Read takes the Arn
Ref(kind, v) == [nil |-> FALSE, Arn |-> "arn:" \o kind \o "/" \o ToString(v)]

ImageObjects ==
    {"ContainerRecipe", "DistributionConfiguration", "ImageRecipe",
     "InfrastructureConfiguration", "ImageTestsConfiguration", "OutputResources"}

AmiOf(v) ==
    [nil |-> FALSE, AccountId |-> "account", Description |-> NilStr,
     Image |-> "ami-" \o ToString(v), Name |-> "name-" \o ToString(v),
     Region |-> "region"]

\* imagebuilder.Image number v, holding the objects named in present
Image(v, present) ==
    [nil |-> FALSE,
     Arn |-> "arn:image/" \o ToString(v),
     ContainerRecipe |->
         IF "ContainerRecipe" \in present THEN Ref("container-recipe", v) ELSE NilRef,
     DateCreated |-> "date-" \o ToString(v),
     DistributionConfiguration |->
         IF "DistributionConfiguration" \in present
         THEN Ref("distribution-configuration", v) ELSE NilRef,
     EnhancedImageMetadataEnabled |-> Bool(v % 2 = 0),
     ImageRecipe |-> IF "ImageRecipe" \in present THEN Ref("image-recipe", v) ELSE NilRef,
     ImageTestsConfiguration |->
         IF "ImageTestsConfiguration" \in present
         THEN [nil |-> FALSE, ImageTestsEnabled |-> "true", TimeoutMinutes |-> NilStr]
         ELSE NilImageTestsConfiguration,
     InfrastructureConfiguration |->
         IF "InfrastructureConfiguration" \in present
         THEN Ref("infrastructure-configuration", v) ELSE NilRef,
     Name |-> "name-" \o ToString(v),
     Platform |-> "Linux",
     OsVersion |-> "os-" \o ToString(v),
     OutputResources |->
         IF "OutputResources" \in present
         THEN [nil |-> FALSE,
               Amis |-> [nil |-> FALSE, elems |-> <<AmiOf(v)>>],
               Containers |-> NilList]
         ELSE NilOutputResources,
     Tags |-> ResponseTags(v),
     Version |-> ToString(v) \o ".0.0"]

\* responses holding every object, or every object but one
PresentSets == {ImageObjects} \cup { ImageObjects \ {o} : o \in ImageObjects }

Images == { Image(v, present) : v \in 1..MaxVersion, present \in PresentSets }

NilImage == [nil |-> TRUE]

\* what conn.GetImage can return: an error, no output, no image, an image
GetImageResults ==
    { [err |-> e, output |-> [nil |-> TRUE]] : e \in ErrorCodes \cup {"nil"} }
    \cup { [err |-> "nil", output |-> [nil |-> FALSE, Image |-> i]]
           : i \in Images \cup {NilImage} }

\* what conn.CreateImage can return
CreateImageResults ==
    { [err |-> e, output |-> [nil |-> TRUE]] : e \in {"ServiceException", "nil"} }
    \cup { [err |-> "nil", output |-> [nil |-> FALSE, ImageBuildVersionArn |-> a]]
           : a \in {NilStr} \cup { "arn:image/" \o ToString(v) : v \in 1..MaxVersion } }

---------------------------------------------------------------------------
(* aws_imagebuilder_image: callbacks *)

\* d.GetOk on a string attribute: set when it is not the zero value
GetOkString(v) == IF v # "" THEN String(v) ELSE NilStr

\* the CreateImageInput built from d
CreateImageInput(dd) ==
    [ClientToken |-> String(UniqueId),
     EnhancedImageMetadataEnabled |-> Bool(dd.attrs.enhanced_image_metadata_enabled),
     ContainerRecipeArn |-> GetOkString(dd.attrs.container_recipe_arn),
     DistributionConfigurationArn |-> GetOkString(dd.attrs.distribution_configuration_arn),
     ImageRecipeArn |-> GetOkString(dd.attrs.image_recipe_arn),
     ImageTestsConfiguration |->
         IF /\ Len(dd.attrs.image_tests_configuration.elems) > 0
            /\ ~dd.attrs.image_tests_configuration.elems[1].nil
         THEN expandImageBuilderImageTestConfiguration(
                  dd.attrs.image_tests_configuration.elems[1])
         ELSE NilImageTestsConfiguration,
     InfrastructureConfigurationArn |->
         GetOkString(dd.attrs.infrastructure_configuration_arn),
     Tags |-> IF DOMAIN dd.attrs.tags # {}
              THEN [nil |-> FALSE, kv |-> IgnoreAws(dd.attrs.tags)]
              ELSE [nil |-> TRUE, kv |-> EmptyMap]]

resourceAwsImageBuilderImageCreateNoIdCheck(dd, co) ==
    LET sent == <<Call("CreateImage", "", CreateImageInput(dd), co)>>
        id == IF co.output.nil THEN "" ELSE StringValue(co.output.ImageBuildVersionArn)
    IN  [d |-> [dd EXCEPT !.id = id],
         calls |-> Append(sent, Call("waiter.ImageStatusAvailable", id, NoInput, ErrOnly(""))),
         ret |-> NotReturned,
         pc |-> "waiting"]

\* Create up to its call of the waiter: CreateImage, the two checks, SetId
resourceAwsImageBuilderImageCreate(dd, co) ==
    LET sent == <<Call("CreateImage", "", CreateImageInput(dd), co)>> IN
    IF co.err # "nil"
    THEN [d |-> dd, calls |-> sent, pc |-> "idle",
          ret |-> Errorf("error creating Image Builder Image", co.err)]
    ELSE IF co.output.nil
    THEN [d |-> dd, calls |-> sent, pc |-> "idle",
          ret |-> Errorf("error creating Image Builder Image", "empty response")]
    ELSE LET dset == [dd EXCEPT !.id = StringValue(co.output.ImageBuildVersionArn)] IN
         [d |-> dset,
          calls |-> Append(sent, Call("waiter.ImageStatusAvailable", dset.id, NoInput, ErrOnly(""))),
          ret |-> NotReturned,
          pc |-> "waiting"]

\* statuses of an image build
PendingStatuses == {"PENDING", "BUILDING", "TESTING"}

TargetStatus == "AVAILABLE"

ImageStatuses == PendingStatuses \cup {TargetStatus, "FAILED", "CANCELLED"}

\* schema.DefaultTimeout(60 * time.Minute), in minutes
CreateTimeout == 60

\* waiter.ImageStatusAvailable polling status s, t minutes after it was called, with
\* the given timeout: "nil" (available), an error, or "pending" (it sleeps and polls
\* again)
ImageStatusAvailable(s, t, timeout) ==
    IF t >= timeout THEN "timeout while waiting for state"
    ELSE IF s = TargetStatus THEN "nil"
    ELSE IF s \notin PendingStatuses THEN "unexpected state"
    ELSE "pending"

resourceAwsImageBuilderImageCreateRetryWaiter(dd, waitErr) ==
    IF waitErr # "nil"
    THEN [d |-> dd, pc |-> "waiting", ret |-> NotReturned]
    ELSE [d |-> dd, pc |-> "read", ret |-> NotReturned]

resourceAwsImageBuilderImageCreateIgnoreWaiter(dd, waitErr) ==
    [d |-> dd, pc |-> "read", ret |-> NotReturned]

\* Create once the waiter has returned: its error is returned, else Read follows
resourceAwsImageBuilderImageCreateWaited(dd, waitErr) ==
    IF waitErr # "nil"
    THEN [d |-> dd, pc |-> "idle",
          ret |-> Errorf("error waiting for Image Builder Image to become available",
                         waitErr)]
    ELSE [d |-> dd, pc |-> "read", ret |-> NotReturned]

\* the d.Set calls of Read
ImageSetAttrsResetAbsent(attrs, image, ign) ==
    [attrs EXCEPT
        !.arn = StringValue(image.Arn),
        !.container_recipe_arn = StringValue(image.ContainerRecipe.Arn),
        !.date_created = StringValue(image.DateCreated),
        !.distribution_configuration_arn = StringValue(image.DistributionConfiguration.Arn),
        !.enhanced_image_metadata_enabled = BoolValue(image.EnhancedImageMetadataEnabled),
        !.image_recipe_arn = StringValue(image.ImageRecipe.Arn),
        !.image_tests_configuration =
            IF ~image.ImageTestsConfiguration.nil
            THEN [nil |-> FALSE,
                  elems |-> <<flattenImageBuilderImageTestsConfiguration(
                                  image.ImageTestsConfiguration)>>]
            ELSE NilList,
        !.infrastructure_configuration_arn =
            StringValue(image.InfrastructureConfiguration.Arn),
        !.name = StringValue(image.Name),
        !.platform = StringValue(image.Platform),
        !.os_version = StringValue(image.OsVersion),
        !.output_resources =
            IF ~image.OutputResources.nil
            THEN [nil |-> FALSE,
                  elems |-> <<flattenImageBuilderOutputResources(image.OutputResources)>>]
            ELSE NilList,
        !.tags = IgnoreConfig(IgnoreAws(image.Tags), ign),
        !.version = StringValue(image.Version)]

ImageSetAttrs(attrs, image, ign) ==
    [attrs EXCEPT
        !.arn = StringValue(image.Arn),
        !.container_recipe_arn =
            IF ~image.ContainerRecipe.nil THEN StringValue(image.ContainerRecipe.Arn) ELSE @,
        !.date_created = StringValue(image.DateCreated),
        !.distribution_configuration_arn =
            IF ~image.DistributionConfiguration.nil
            THEN StringValue(image.DistributionConfiguration.Arn) ELSE @,
        !.enhanced_image_metadata_enabled = BoolValue(image.EnhancedImageMetadataEnabled),
        !.image_recipe_arn =
            IF ~image.ImageRecipe.nil THEN StringValue(image.ImageRecipe.Arn) ELSE @,
        !.image_tests_configuration =
            IF ~image.ImageTestsConfiguration.nil
            THEN [nil |-> FALSE,
                  elems |-> <<flattenImageBuilderImageTestsConfiguration(
                                  image.ImageTestsConfiguration)>>]
            ELSE NilList,
        !.infrastructure_configuration_arn =
            IF ~image.InfrastructureConfiguration.nil
            THEN StringValue(image.InfrastructureConfiguration.Arn) ELSE @,
        !.name = StringValue(image.Name),
        !.platform = StringValue(image.Platform),
        !.os_version = StringValue(image.OsVersion),
        !.output_resources =
            IF ~image.OutputResources.nil
            THEN [nil |-> FALSE,
                  elems |-> <<flattenImageBuilderOutputResources(image.OutputResources)>>]
            ELSE NilList,
        !.tags = IgnoreConfig(IgnoreAws(image.Tags), ign),
        !.version = StringValue(image.Version)]

resourceAwsImageBuilderImageReadAlwaysRemove(dd, r, ign) ==
    LET sent == <<Call("GetImage", dd.id, NoInput, r)>> IN
    IF ErrCodeEquals(r.err, ErrCodeResourceNotFoundException)
    THEN [d |-> [dd EXCEPT !.id = ""], calls |-> sent, ret |-> NoError]
    ELSE IF r.err # "nil"
    THEN [d |-> dd, calls |-> sent,
          ret |-> Errorf("error getting Image Builder Image", r.err)]
    ELSE IF r.output.nil \/ r.output.Image.nil
    THEN [d |-> dd, calls |-> sent,
          ret |-> Errorf("error getting Image Builder Image", "empty response")]
    ELSE [d |-> [dd EXCEPT !.attrs = ImageSetAttrs(dd.attrs, r.output.Image, ign)],
          calls |-> sent, ret |-> NoError]

\* Read, given the result r of its GetImage call
resourceAwsImageBuilderImageRead(dd, r, ign) ==
    LET sent == <<Call("GetImage", dd.id, NoInput, r)>> IN
    IF ~dd.isNew /\ ErrCodeEquals(r.err, ErrCodeResourceNotFoundException)
    THEN [d |-> [dd EXCEPT !.id = ""], calls |-> sent, ret |-> NoError]
    ELSE IF r.err # "nil"
    THEN [d |-> dd, calls |-> sent,
          ret |-> Errorf("error getting Image Builder Image", r.err)]
    ELSE IF r.output.nil \/ r.output.Image.nil
    THEN [d |-> dd, calls |-> sent,
          ret |-> Errorf("error getting Image Builder Image", "empty response")]
    ELSE [d |-> [dd EXCEPT !.attrs = ImageSetAttrs(dd.attrs, r.output.Image, ign)],
          calls |-> sent, ret |-> NoError]

\* keyvaluetags.ImagebuilderUpdateTags: the remote call it makes and its error
UpdateTagsCall(id, o, n, tagErr) ==
    Call("ImagebuilderUpdateTags", id, [o |-> o, n |-> n], ErrOnly(tagErr))

resourceAwsImageBuilderImageUpdateAlwaysTags(dd, o, n, tagErr) ==
    LET sent == <<UpdateTagsCall(dd.id, o, n, tagErr)>> IN
    IF tagErr # "nil"
    THEN [d |-> dd, calls |-> sent, pc |-> "idle",
          ret |-> Errorf("error updating tags for Image Builder Image", tagErr)]
    ELSE [d |-> dd, calls |-> sent, pc |-> "read", ret |-> NotReturned]

\* Update of d, whose tags were o in the state and are n in the plan, up to its
\* call of Read; tagErr is the error of the tag update, if it is made
resourceAwsImageBuilderImageUpdate(dd, o, n, tagErr) ==
    LET sent == IF o # n THEN <<UpdateTagsCall(dd.id, o, n, tagErr)>> ELSE <<>> IN
    IF o # n /\ tagErr # "nil"
    THEN [d |-> dd, calls |-> sent, pc |-> "idle",
          ret |-> Errorf("error updating tags for Image Builder Image", tagErr)]
    ELSE [d |-> dd, calls |-> sent, pc |-> "read", ret |-> NotReturned]

resourceAwsImageBuilderImageDeleteStrict(dd, delErr) ==
    [d |-> dd, calls |-> <<Call("DeleteImage", dd.id, NoInput, ErrOnly(delErr))>>,
     ret |-> IF delErr # "nil"
             THEN Errorf("error deleting Image Builder Image", delErr)
             ELSE NoError]

\* Delete, given the error delErr of its DeleteImage call
resourceAwsImageBuilderImageDelete(dd, delErr) ==
    [d |-> dd, calls |-> <<Call("DeleteImage", dd.id, NoInput, ErrOnly(delErr))>>,
     ret |-> IF ErrCodeEquals(delErr, ErrCodeResourceNotFoundException) THEN NoError
             ELSE IF delErr # "nil"
             THEN Errorf("error deleting Image Builder Image", delErr)
             ELSE NoError]

---------------------------------------------------------------------------
(* aws_imagebuilder_container_recipe: schema, configurations and API objects *)

\* expandImageBuilderComponentConfigurations: one ComponentConfiguration per block
expandImageBuilderComponentConfigurations(tfList) ==
    [nil |-> FALSE,
     elems |-> [i \in 1..Len(tfList.elems) |->
                  [nil |-> FALSE,
                   ComponentArn |-> String(tfList.elems[i].kv["component_arn"])]]]

\* flattenImageBuilderComponentConfigurations
flattenImageBuilderComponentConfigurations(apiObjects) ==
    IF Len(apiObjects.elems) = 0 THEN NilList
    ELSE [nil |-> FALSE,
          elems |-> [i \in 1..Len(apiObjects.elems) |->
                       [nil |-> FALSE,
                        kv |-> [component_arn |->
                                  StringValue(apiObjects.elems[i].ComponentArn)]]]]

ContainerRecipeSchema ==
    [arn |-> "",
     component |-> NilList,
     container_type |-> "",
     date_created |-> "",
     description |-> "",
     dockerfile_template_data |-> "",
     dockerfile_template_uri |-> "",
     encrypted |-> FALSE,
     image_os_version_override |-> "",
     kms_key_id |-> "",
     name |-> "",
     owner |-> "",
     parent_image |-> "",
     platform |-> "",
     platform_override |-> "",
     semantic_version |-> "",
     tags |-> EmptyMap,
     target_repository |-> NilList,
     working_directory |-> ""]

\* the arguments of the schema that are Required
RequiredArguments ==
    {"component", "container_type", "name", "parent_image", "semantic_version",
     "target_repository"}

\* the arguments that are Optional; exactly one of the two dockerfile ones is set
OptionalArguments ==
    {"description", "image_os_version_override", "kms_key_id", "platform_override",
     "tags", "working_directory"}

DockerfileArguments == {"dockerfile_template_data", "dockerfile_template_uri"}

ConfigurableArguments == RequiredArguments \cup OptionalArguments \cup DockerfileArguments

\* a value that passes the argument's validation
ConfiguredValue ==
    [component |->
         [nil |-> FALSE,
          elems |-> <<[nil |-> FALSE, kv |-> [component_arn |-> "arn:component/cfg"]]>>],
     container_type |-> "DOCKER",
     description |-> "description",
     dockerfile_template_data |-> "FROM {{{ imagebuilder:parentImage }}}",
     dockerfile_template_uri |-> "s3://bucket/Dockerfile",
     image_os_version_override |-> "Amazon Linux 2",
     kms_key_id |-> "arn:kms:key/cfg",
     name |-> "recipe",
     parent_image |-> "arn:image/amazon-linux-x86-2/x.x.x",
     platform_override |-> "Linux",
     semantic_version |-> "1.0.0",
     tags |-> [k \in {"Name"} |-> "v"],
     target_repository |->
         [nil |-> FALSE,
          elems |-> <<[nil |-> FALSE,
                       kv |-> [repository_name |-> "repo", service |-> "ECR"]]>>],
     working_directory |-> "/tmp"]

\* the configuration setting exactly the arguments named in set
ContainerRecipeConfig(set) ==
    [a \in DOMAIN ContainerRecipeSchema |->
        IF a \in set THEN ConfiguredValue[a] ELSE ContainerRecipeSchema[a]]

\* configurations setting every optional argument, none, or exactly one
OptionalSets == {OptionalArguments, {}} \cup { {a} : a \in OptionalArguments }

ContainerRecipeConfigs ==
    { ContainerRecipeConfig(RequiredArguments \cup opt \cup {dockerfile}) :
        opt \in OptionalSets, dockerfile \in DockerfileArguments }

\* imagebuilder.ContainerRecipe number v
ContainerRecipe(v, repo) ==
    [nil |-> FALSE,
     Arn |-> "arn:container-recipe/" \o ToString(v),
     Components |->
         [nil |-> FALSE,
          elems |-> <<[nil |-> FALSE, ComponentArn |-> "arn:component/" \o ToString(v)]>>],
     ContainerType |-> "DOCKER",
     DateCreated |-> "date-" \o ToString(v),
     Description |-> IF v % 2 = 0 THEN NilStr ELSE "description-" \o ToString(v),
     DockerfileTemplateData |-> "FROM " \o ToString(v),
     Encrypted |-> Bool(v % 2 = 0),
     KmsKeyId |-> IF v % 2 = 0 THEN "arn:kms:key/" \o ToString(v) ELSE NilStr,
     Name |-> "recipe-" \o ToString(v),
     Owner |-> "owner",
     ParentImage |-> "parent-" \o ToString(v),
     Platform |-> "Linux",
     Tags |-> ResponseTags(v),
     Version |-> ToString(v) \o ".0.0",
     TargetRepository |-> repo,
     WorkingDirectory |-> NilStr]

ContainerRecipes ==
    { ContainerRecipe(v, repo) :
        v \in 1..MaxVersion,
        repo \in {NilTargetRepository,
                  [nil |-> FALSE, RepositoryName |-> "repo", Service |-> "ECR"]} }

NilContainerRecipe == [nil |-> TRUE]

\* what conn.GetContainerRecipe can return
GetContainerRecipeResults ==
    { [err |-> e, output |-> [nil |-> TRUE]] : e \in ErrorCodes \cup {"nil"} }
    \cup { [err |-> "nil", output |-> [nil |-> FALSE, ContainerRecipe |-> c]]
           : c \in ContainerRecipes \cup {NilContainerRecipe} }

\* what conn.CreateContainerRecipe can return
CreateContainerRecipeResults ==
    { [err |-> e, output |-> [nil |-> TRUE]] : e \in {"ServiceException", "nil"} }
    \cup { [err |-> "nil", output |-> [nil |-> FALSE, ContainerRecipeArn |-> a]]
           : a \in {NilStr} \cup { "arn:container-recipe/" \o ToString(v) : v \in 1..MaxVersion } }

---------------------------------------------------------------------------
(* aws_imagebuilder_container_recipe: callbacks *)

NilApiList == [nil |-> TRUE, elems |-> <<>>]

\* the CreateContainerRecipeInput built from d
CreateContainerRecipeInput(dd) ==
    [ClientToken |-> String(UniqueId),
     Components |->
         IF Len(dd.attrs.component.elems) > 0
         THEN expandImageBuilderComponentConfigurations(dd.attrs.component)
         ELSE NilApiList,
     ContainerType |-> GetOkString(dd.attrs.container_type),
     Description |-> GetOkString(dd.attrs.description),
     DockerfileTemplateData |-> GetOkString(dd.attrs.dockerfile_template_data),
     DockerfileTemplateUri |-> NilStr,
     ImageOsVersionOverride |-> NilStr,
     KmsKeyId |-> NilStr,
     Name |-> GetOkString(dd.attrs.name),
     ParentImage |-> GetOkString(dd.attrs.parent_image),
     PlatformOverride |-> NilStr,
     Tags |-> IF DOMAIN dd.attrs.tags # {}
              THEN [nil |-> FALSE, kv |-> IgnoreAws(dd.attrs.tags)]
              ELSE [nil |-> TRUE, kv |-> EmptyMap],
     SemanticVersion |-> GetOkString(dd.attrs.semantic_version),
     TargetRepository |->
         IF Len(dd.attrs.target_repository.elems) > 0
         THEN expandImageBuilderTargetContainerRepository(
                  dd.attrs.target_repository.elems[1])
         ELSE NilTargetRepository,
     WorkingDirectory |-> GetOkString(dd.attrs.working_directory)]

\* the d.Set calls of Read
ContainerRecipeSetAttrs(attrs, recipe, ign) ==
    [attrs EXCEPT
        !.arn = StringValue(recipe.Arn),
        !.component = flattenImageBuilderComponentConfigurations(recipe.Components),
        !.container_type = StringValue(recipe.ContainerType),
        !.date_created = StringValue(recipe.DateCreated),
        !.description = StringValue(recipe.Description),
        !.dockerfile_template_data = StringValue(recipe.DockerfileTemplateData),
        !.name = StringValue(recipe.Name),
        !.encrypted = BoolValue(recipe.Encrypted),
        !.kms_key_id = StringValue(recipe.KmsKeyId),
        !.owner = StringValue(recipe.Owner),
        !.parent_image = StringValue(recipe.ParentImage),
        !.platform = StringValue(recipe.Platform),
        !.tags = IgnoreConfig(IgnoreAws(recipe.Tags), ign),
        !.semantic_version = StringValue(recipe.Version),
        !.target_repository =
            [nil |-> FALSE,
             elems |-> <<flattenImageBuilderTargetContainerRepository(
                             recipe.TargetRepository)>>],
        !.working_directory = StringValue(recipe.WorkingDirectory)]

\* Read, given the result r of its GetContainerRecipe call
resourceAwsImageBuilderContainerRecipeRead(dd, r, ign) ==
    LET sent == <<Call("GetContainerRecipe", dd.id, NoInput, r)>> IN
    IF ~dd.isNew /\ ErrCodeEquals(r.err, ErrCodeResourceNotFoundException)
    THEN [d |-> [dd EXCEPT !.id = ""], calls |-> sent, ret |-> NoError]
    ELSE IF r.err # "nil"
    THEN [d |-> dd, calls |-> sent,
          ret |-> Errorf("error getting Image Builder Container Recipe", r.err)]
    ELSE IF r.output.nil \/ r.output.ContainerRecipe.nil
    THEN [d |-> dd, calls |-> sent,
          ret |-> Errorf("error getting Image Builder Container Recipe", "empty response")]
    ELSE [d |-> [dd EXCEPT
                   !.attrs = ContainerRecipeSetAttrs(dd.attrs, r.output.ContainerRecipe, ign)],
          calls |-> sent, ret |-> NoError]

\* Create up to its call of Read: CreateContainerRecipe, the two checks, SetId
resourceAwsImageBuilderContainerRecipeCreate(dd, co) ==
    LET sent == <<Call("CreateContainerRecipe", "", CreateContainerRecipeInput(dd), co)>> IN
    IF co.err # "nil"
    THEN [d |-> dd, calls |-> sent, pc |-> "idle",
          ret |-> Errorf("error creating Image Builder Container Recipe", co.err)]
    ELSE IF co.output.nil
    THEN [d |-> dd, calls |-> sent, pc |-> "idle",
          ret |-> Errorf("error creating Image Builder Container Recipe", "empty response")]
    ELSE [d |-> [dd EXCEPT !.id = StringValue(co.output.ContainerRecipeArn)],
          calls |-> sent, pc |-> "read", ret |-> NotReturned]

\* Update of d, whose tags were o in the state and are n in the plan, up to its
\* call of Read
resourceAwsImageBuilderContainerRecipeUpdate(dd, o, n, tagErr) ==
    LET sent == IF o # n THEN <<UpdateTagsCall(dd.id, o, n, tagErr)>> ELSE <<>> IN
    IF o # n /\ tagErr # "nil"
    THEN [d |-> dd, calls |-> sent, pc |-> "idle",
          ret |-> Errorf("error updating tags for Image Builder Image Recipe", tagErr)]
    ELSE [d |-> dd, calls |-> sent, pc |-> "read", ret |-> NotReturned]

\* Delete, given the error delErr of its DeleteContainerRecipe call
resourceAwsImageBuilderContainerRecipeDelete(dd, delErr) ==
    [d |-> dd, calls |-> <<Call("DeleteContainerRecipe", dd.id, NoInput, ErrOnly(delErr))>>,
     ret |-> IF ErrCodeEquals(delErr, ErrCodeResourceNotFoundException) THEN NoError
             ELSE IF delErr # "nil"
             THEN Errorf("error deleting Image Builder Image Recipe", delErr)
             ELSE NoError]

---------------------------------------------------------------------------
(* The framework invoking the callbacks on one resource *)

\* only Create is handed a configuration
NoConfig == [nil |-> TRUE]

SchemaOf(type) == IF type = ImageType THEN ImageSchema ELSE ContainerRecipeSchema

ResourceInit ==
    /\ resourceType \in {ImageType, ContainerRecipeType}
    /\ ignoreTags \in IgnoreTagsConfigs
    /\ d = NewResourceData(SchemaOf(resourceType))
    /\ config = NoConfig
    /\ op = "none"
    /\ pc = "idle"
    /\ calls = <<>>
    /\ ret = NotReturned
    /\ resp = NoResponse
    /\ elapsed = 0
    /\ status = ""

Init ==
    /\ ResourceInit
    /\ fn = "none"
    /\ arg = NilTfMap
    /\ out = NilTfMap

\* Create of an image is called with the planned configuration and runs to the waiter
ImageCreate ==
    /\ resourceType = ImageType /\ pc = "idle" /\ ~Tracked
    /\ \E cfg \in ImageConfigs, co \in CreateImageResults :
         LET r == resourceAwsImageBuilderImageCreate(NewResourceData(cfg), co) IN
         /\ config' = cfg
         /\ d' = r.d /\ calls' = r.calls /\ ret' = r.ret /\ pc' = r.pc
    /\ op' = "Create" /\ resp' = NoResponse /\ elapsed' = 0 /\ status' = ""
    /\ UNCHANGED <<resourceType, ignoreTags, fn, arg, out>>

\* one poll of the waiter Create is blocked in
ImageCreateWait ==
    /\ pc = "waiting"
    /\ \E s \in ImageStatuses :
         LET w == ImageStatusAvailable(s, elapsed, CreateTimeout) IN
         /\ status' = s
         /\ IF w = "pending"
            THEN /\ elapsed' = elapsed + PollMinutes
                 /\ UNCHANGED <<d, pc, ret, calls>>
            ELSE LET r == resourceAwsImageBuilderImageCreateWaited(d, w) IN
                 /\ d' = r.d /\ pc' = r.pc /\ ret' = r.ret
                 /\ calls' = [calls EXCEPT ![Len(calls)].err = w]
                 /\ UNCHANGED elapsed
    /\ UNCHANGED <<resourceType, ignoreTags, config, op, resp, fn, arg, out>>

\* the Read that Create and Update end with
ImageReadCalled ==
    /\ resourceType = ImageType /\ pc = "read"
    /\ \E r \in GetImageResults :
         LET read == resourceAwsImageBuilderImageRead(d, r, ignoreTags) IN
         /\ d' = read.d /\ calls' = calls \o read.calls /\ ret' = read.ret
         /\ resp' = r
    /\ pc' = "idle"
    /\ UNCHANGED <<resourceType, ignoreTags, config, op, elapsed, status, fn, arg, out>>

ImageRead ==
    /\ resourceType = ImageType /\ pc = "idle" /\ Tracked
    /\ \E r \in GetImageResults :
         LET read == resourceAwsImageBuilderImageRead(ExistingResourceData(d), r, ignoreTags)
         IN  /\ d' = read.d /\ calls' = read.calls /\ ret' = read.ret
             /\ resp' = r
    /\ op' = "Read" /\ status' = "" /\ elapsed' = 0 /\ config' = NoConfig
    /\ UNCHANGED <<resourceType, ignoreTags, pc, fn, arg, out>>

\* the ResourceData of an Update reads the planned tags n
Planned(dd, n) == [ExistingResourceData(dd) EXCEPT !.attrs.tags = n]

ImageUpdate ==
    /\ resourceType = ImageType /\ pc = "idle" /\ Tracked
    /\ \E n \in TagMaps, tagErr \in {"nil", "ServiceException"} :
         LET u == resourceAwsImageBuilderImageUpdate(Planned(d, n), d.attrs.tags, n, tagErr)
         IN  d' = u.d /\ calls' = u.calls /\ ret' = u.ret /\ pc' = u.pc
    /\ op' = "Update" /\ resp' = NoResponse /\ status' = "" /\ elapsed' = 0 /\ config' = NoConfig
    /\ UNCHANGED <<resourceType, ignoreTags, fn, arg, out>>

ImageDelete ==
    /\ resourceType = ImageType /\ pc = "idle" /\ Tracked
    /\ \E delErr \in ErrorCodes \cup {"nil"} :
         LET r == resourceAwsImageBuilderImageDelete(ExistingResourceData(d), delErr) IN
         /\ d' = r.d /\ calls' = r.calls /\ ret' = r.ret
    /\ op' = "Delete" /\ resp' = NoResponse /\ status' = "" /\ elapsed' = 0 /\ config' = NoConfig
    /\ UNCHANGED <<resourceType, ignoreTags, pc, fn, arg, out>>

ContainerRecipeCreate ==
    /\ resourceType = ContainerRecipeType /\ pc = "idle" /\ ~Tracked
    /\ \E cfg \in ContainerRecipeConfigs, co \in CreateContainerRecipeResults :
         LET c == resourceAwsImageBuilderContainerRecipeCreate(NewResourceData(cfg), co)
         IN  /\ config' = cfg
             /\ d' = c.d /\ calls' = c.calls /\ ret' = c.ret /\ pc' = c.pc
    /\ op' = "Create" /\ resp' = NoResponse /\ status' = "" /\ elapsed' = 0
    /\ UNCHANGED <<resourceType, ignoreTags, fn, arg, out>>

\* the Read that Create and Update end with
ContainerRecipeReadCalled ==
    /\ resourceType = ContainerRecipeType /\ pc = "read"
    /\ \E r \in GetContainerRecipeResults :
         LET read == resourceAwsImageBuilderContainerRecipeRead(d, r, ignoreTags) IN
         /\ d' = read.d /\ calls' = calls \o read.calls /\ ret' = read.ret
         /\ resp' = r
    /\ pc' = "idle"
    /\ UNCHANGED <<resourceType, ignoreTags, config, op, elapsed, status, fn, arg, out>>

ContainerRecipeRead ==
    /\ resourceType = ContainerRecipeType /\ pc = "idle" /\ Tracked
    /\ \E r \in GetContainerRecipeResults :
         LET read == resourceAwsImageBuilderContainerRecipeRead(
                         ExistingResourceData(d), r, ignoreTags)
         IN  /\ d' = read.d /\ calls' = read.calls /\ ret' = read.ret
             /\ resp' = r
    /\ op' = "Read" /\ status' = "" /\ elapsed' = 0 /\ config' = NoConfig
    /\ UNCHANGED <<resourceType, ignoreTags, pc, fn, arg, out>>

ContainerRecipeUpdate ==
    /\ resourceType = ContainerRecipeType /\ pc = "idle" /\ Tracked
    /\ \E n \in TagMaps, tagErr \in {"nil", "ServiceException"} :
         LET u == resourceAwsImageBuilderContainerRecipeUpdate(
                      Planned(d, n), d.attrs.tags, n, tagErr)
         IN  d' = u.d /\ calls' = u.calls /\ ret' = u.ret /\ pc' = u.pc
    /\ op' = "Update" /\ resp' = NoResponse /\ status' = "" /\ elapsed' = 0 /\ config' = NoConfig
    /\ UNCHANGED <<resourceType, ignoreTags, fn, arg, out>>

ContainerRecipeDelete ==
    /\ resourceType = ContainerRecipeType /\ pc = "idle" /\ Tracked
    /\ \E delErr \in ErrorCodes \cup {"nil"} :
         LET r == resourceAwsImageBuilderContainerRecipeDelete(
                      ExistingResourceData(d), delErr)
         IN  /\ d' = r.d /\ calls' = r.calls /\ ret' = r.ret
    /\ op' = "Delete" /\ resp' = NoResponse /\ status' = "" /\ elapsed' = 0 /\ config' = NoConfig
    /\ UNCHANGED <<resourceType, ignoreTags, pc, fn, arg, out>>

Next ==
    \/ ImageCreate
    \/ ImageCreateWait
    \/ ImageReadCalled
    \/ ImageRead
    \/ ImageUpdate
    \/ ImageDelete
    \/ ContainerRecipeCreate
    \/ ContainerRecipeReadCalled
    \/ ContainerRecipeRead
    \/ ContainerRecipeUpdate
    \/ ContainerRecipeDelete

Spec == Init /\ [][Next]_vars

---------------------------------------------------------------------------
(* The expand / flatten helpers applied to bounded inputs *)

\* tfMap arguments: nil, or any of the two keys present with an empty or a set value
TargetRepositoryMaps ==
    {NilTfMap} \cup
    { [nil |-> FALSE, kv |-> kv] :
        kv \in UNION { [ks -> {"", "repo", "ECR"}] :
                         ks \in SUBSET {"repository_name", "service"} } }

\* imagebuilder.Ami with exactly the fields in set non-nil; Name may be the empty string
AmiWith(set, name) ==
    [nil |-> FALSE,
     AccountId |-> IF "AccountId" \in set THEN "account" ELSE NilStr,
     Description |-> IF "Description" \in set THEN "description" ELSE NilStr,
     Image |-> IF "Image" \in set THEN "ami-1" ELSE NilStr,
     Name |-> IF "Name" \in set THEN name ELSE NilStr,
     Region |-> IF "Region" \in set THEN "region" ELSE NilStr]

AmiFieldNames == {"AccountId", "Description", "Image", "Name", "Region"}

\* every field set, none, exactly one, or all but one
AmiFieldSets ==
    {AmiFieldNames, {}} \cup { {f} : f \in AmiFieldNames }
                        \cup { AmiFieldNames \ {f} : f \in AmiFieldNames }

Amis ==
    {NilAmi} \cup { AmiWith(set, "name") : set \in AmiFieldSets }
             \cup { AmiWith({"Name", "Region"}, "") }

Containers ==
    {NilContainer} \cup
    { [nil |-> FALSE, ImageUris |-> uris, Region |-> region] :
        uris \in {NilStrList,
                  [nil |-> FALSE, elems |-> <<>>],
                  [nil |-> FALSE, elems |-> <<"uri-1">>],
                  [nil |-> FALSE, elems |-> <<"uri-1", NilStr, "uri-2">>]},
        region \in {NilStr, "region"} }

\* the slices of at most MaxLen elements of S, and the nil slice
Slices(S) ==
    {NilList} \cup
    { [nil |-> FALSE, elems |-> e] : e \in UNION { [1..n -> S] : n \in 0..MaxLen } }

\* a helper is about to be applied to an argument drawn from the bounded inputs
HelperInit ==
    /\ ResourceInit
    /\ resourceType = ImageType
    /\ ignoreTags = [Keys |-> {}, KeyPrefixes |-> {}]
    /\ fn = "none"
    /\ arg \in TargetRepositoryMaps \cup Slices(Amis) \cup Slices(Containers)
    /\ out = NilTfMap

ExpandTargetRepository ==
    /\ fn = "none" /\ arg \in TargetRepositoryMaps
    /\ out' = expandImageBuilderTargetContainerRepository(arg)
    /\ fn' = "expandImageBuilderTargetContainerRepository"
    /\ UNCHANGED <<arg, resVars>>

\* flatten applied to what expand returned; arg stays the map expand was given
FlattenTargetRepository ==
    /\ fn = "expandImageBuilderTargetContainerRepository"
    /\ out' = flattenImageBuilderTargetContainerRepository(out)
    /\ fn' = "flattenImageBuilderTargetContainerRepository"
    /\ UNCHANGED <<arg, resVars>>

FlattenAmis ==
    /\ fn = "none" /\ arg \in Slices(Amis)
    /\ out' = flattenImageBuilderAmis(arg)
    /\ fn' = "flattenImageBuilderAmis"
    /\ UNCHANGED <<arg, resVars>>

FlattenContainers ==
    /\ fn = "none" /\ arg \in Slices(Containers)
    /\ out' = flattenImageBuilderContainers(arg)
    /\ fn' = "flattenImageBuilderContainers"
    /\ UNCHANGED <<arg, resVars>>

HelperNext ==
    \/ ExpandTargetRepository
    \/ FlattenTargetRepository
    \/ FlattenAmis
    \/ FlattenContainers

HelperSpec == HelperInit /\ [][HelperNext]_vars

---------------------------------------------------------------------------
(* C6 *)

Populated(tfMap) ==
    /\ ~tfMap.nil
    /\ DOMAIN tfMap.kv = {"repository_name", "service"}
    /\ \A k \in DOMAIN tfMap.kv : tfMap.kv[k] # ""

\* the keys of tfMap holding a non-empty string
NonEmptyKeys(tfMap) == {k \in DOMAIN tfMap.kv : tfMap.kv[k] # ""}

\* C6: flatten(expand(m)) = m for every map m whose repository_name and service are
\* non-empty strings; a key holding the empty string is dropped by expand (its field
\* stays nil) and is absent after the round trip; nil yields nil in both directions.
C6_ExpandFlattenInverse ==
    /\ fn = "expandImageBuilderTargetContainerRepository" =>
         /\ out.nil <=> arg.nil
         /\ ~arg.nil =>
              \A k \in DOMAIN TargetRepositoryFields :
                 out[TargetRepositoryFields[k]] =
                     IF k \in NonEmptyKeys(arg) THEN arg.kv[k] ELSE NilStr
    /\ fn = "flattenImageBuilderTargetContainerRepository" =>
         /\ out.nil <=> arg.nil
         /\ Populated(arg) => out = arg
         /\ ~arg.nil =>
              /\ DOMAIN out.kv = NonEmptyKeys(arg)
              /\ \A k \in DOMAIN out.kv : out.kv[k] = arg.kv[k]

C6_Witness ==
    /\ fn = "flattenImageBuilderTargetContainerRepository"
    /\ Populated(arg)
    /\ out = [nil |-> FALSE, kv |-> [repository_name |-> "repo", service |-> "ECR"]]

C6_WitnessEmptyDropped ==
    /\ fn = "flattenImageBuilderTargetContainerRepository"
    /\ ~arg.nil /\ DOMAIN arg.kv = {"repository_name", "service"}
    /\ arg.kv["repository_name"] = "" /\ arg.kv["service"] = "ECR"
    /\ DOMAIN out.kv = {"service"}

---------------------------------------------------------------------------
(* C10 *)

IsPresent(apiObject) == ~apiObject.nil

\* the non-nil elements of a slice, in their order
NonNil(apiObjects) == SelectSeq(apiObjects.elems, IsPresent)

\* the keys flattenImageBuilderContainer must write for c
ContainerKeys(c) ==
    (IF c.ImageUris.nil THEN {} ELSE {"image_uris"})
    \cup (IF c.Region = NilStr THEN {} ELSE {"region"})

\* C10: flattenImageBuilderAmis and flattenImageBuilderContainers return the flattened
\* non-nil elements in input order (nil elements skipped), nil for an empty or nil
\* input, and each flattened element has exactly the keys whose API field is non-nil.
C10_FlattenLists ==
    /\ fn = "flattenImageBuilderAmis" =>
         /\ Len(arg.elems) = 0 => out = NilList
         /\ Len(out.elems) = Len(NonNil(arg))
         /\ \A i \in 1..Len(out.elems) :
              /\ ~out.elems[i].nil
              /\ DOMAIN out.elems[i].kv =
                     {k \in DOMAIN AmiFields : NonNil(arg)[i][AmiFields[k]] # NilStr}
              /\ \A k \in DOMAIN out.elems[i].kv :
                     out.elems[i].kv[k] = NonNil(arg)[i][AmiFields[k]]
    /\ fn = "flattenImageBuilderContainers" =>
         /\ Len(arg.elems) = 0 => out = NilList
         /\ Len(out.elems) = Len(NonNil(arg))
         /\ \A i \in 1..Len(out.elems) :
              /\ ~out.elems[i].nil
              /\ DOMAIN out.elems[i].kv = ContainerKeys(NonNil(arg)[i])
              /\ "region" \in DOMAIN out.elems[i].kv =>
                     out.elems[i].kv["region"].str = NonNil(arg)[i].Region

C10_Witness ==
    /\ fn = "flattenImageBuilderAmis"
    /\ Len(arg.elems) = MaxLen
    /\ arg.elems[1].nil /\ ~arg.elems[MaxLen].nil
    /\ arg.elems[MaxLen].Description = NilStr /\ arg.elems[MaxLen].Image # NilStr
    /\ Len(out.elems) = MaxLen - 1

---------------------------------------------------------------------------
(* Vocabulary of the claims about the callbacks *)

IsImage == resourceType = ImageType

\* the names of the remote calls made, in order
Apis(cs) == [i \in 1..Len(cs) |-> cs[i].api]

IsPrefix(s, t) == Len(s) <= Len(t) /\ SubSeq(t, 1, Len(s)) = s

ImageCreateSteps == <<"CreateImage", "waiter.ImageStatusAvailable", "GetImage">>

\* the callback has returned
Returned == pc = "idle" /\ ret.done

GetApi == IF IsImage THEN "GetImage" ELSE "GetContainerRecipe"

DeleteApi == IF IsImage THEN "DeleteImage" ELSE "DeleteContainerRecipe"

\* this step ran Read to its return: alone, or as the end of Create or Update
ReadRan == resp' # NoResponse /\ pc' = "idle" /\ (pc = "read" \/ op' = "Read")

\* this step ran Delete
DeleteRan == op' = "Delete"

\* this step ran Update up to its return or its call of Read
UpdateRan == op' = "Update" /\ pc = "idle"

---------------------------------------------------------------------------
(* C1 *)

\* C1: in every execution of the image's Create the remote steps occur in the order
\* CreateImage, waiter.ImageStatusAvailable, GetImage; Create returns success only if
\* the waiter reported the image available within the create timeout; a waiter error
\* makes Create return an error without calling GetImage.
C1_CreateOrder ==
    (IsImage /\ op = "Create") =>
        /\ IsPrefix(Apis(calls), ImageCreateSteps)
        /\ ret = NoError =>
              /\ Apis(calls) = ImageCreateSteps
              /\ calls[2].err = "nil"
              /\ status = TargetStatus /\ elapsed < CreateTimeout
        /\ Len(calls) = 3 =>
              calls[2].err = "nil" /\ status = TargetStatus /\ elapsed < CreateTimeout
        /\ (Len(calls) >= 2 /\ calls[2].err \notin {"", "nil"}) =>
              /\ Returned /\ ret.err /\ ret.cause = calls[2].err
              /\ Len(calls) = 2

\* C1 witness: Create has returned success after the three steps
C1_Witness ==
    /\ IsImage /\ op = "Create" /\ Returned /\ ret = NoError
    /\ Apis(calls) = ImageCreateSteps

\* Create has returned the waiter's timeout without calling GetImage
C1_WitnessWaiterError ==
    /\ IsImage /\ op = "Create" /\ Returned /\ ret.err
    /\ Len(calls) = 2 /\ calls[2].err = "timeout while waiting for state"

---------------------------------------------------------------------------
(* C2 *)

\* the field of CreateContainerRecipeInput that carries each argument
InputField ==
    [component |-> "Components",
     container_type |-> "ContainerType",
     description |-> "Description",
     dockerfile_template_data |-> "DockerfileTemplateData",
     dockerfile_template_uri |-> "DockerfileTemplateUri",
     image_os_version_override |-> "ImageOsVersionOverride",
     kms_key_id |-> "KmsKeyId",
     name |-> "Name",
     parent_image |-> "ParentImage",
     platform_override |-> "PlatformOverride",
     semantic_version |-> "SemanticVersion",
     tags |-> "Tags",
     target_repository |-> "TargetRepository",
     working_directory |-> "WorkingDirectory"]

StringArguments == ConfigurableArguments \ {"component", "tags", "target_repository"}

\* argument a is set in the configuration
IsSet(cfg, a) == cfg[a] # ContainerRecipeSchema[a]

\* the input carries argument a with the value configured for it
Carries(input, cfg, a) ==
    IF a \in StringArguments THEN input[InputField[a]] = cfg[a]
    ELSE IF a = "tags"
    THEN ~input.Tags.nil /\ input.Tags.kv = cfg.tags
    ELSE IF a = "component"
    THEN /\ Len(input.Components.elems) = Len(cfg.component.elems)
         /\ \A i \in 1..Len(cfg.component.elems) :
               input.Components.elems[i].ComponentArn =
                   cfg.component.elems[i].kv["component_arn"]
    ELSE /\ ~input.TargetRepository.nil
         /\ input.TargetRepository.RepositoryName =
                cfg.target_repository.elems[1].kv["repository_name"]
         /\ input.TargetRepository.Service = cfg.target_repository.elems[1].kv["service"]

CreateContainerRecipeSent ==
    /\ ~IsImage /\ op = "Create" /\ calls # <<>>
    /\ calls[1].api = "CreateContainerRecipe"

\* C2: every configurable argument of aws_imagebuilder_container_recipe that is set in
\* the configuration is carried, with the configured value, by the
\* CreateContainerRecipeInput that Create sends.
C2_AllArgumentsMarshalled ==
    CreateContainerRecipeSent =>
        \A a \in ConfigurableArguments :
            IsSet(config, a) => Carries(calls[1].input, config, a)

\* the arguments Create does marshal
MarshalledArguments ==
    ConfigurableArguments \ {"dockerfile_template_uri", "image_os_version_override",
                             "kms_key_id", "platform_override"}

\* the arguments that Create marshals are carried with the configured value
C2_MarshalledArgumentsCarried ==
    CreateContainerRecipeSent =>
        \A a \in MarshalledArguments :
            IsSet(config, a) => Carries(calls[1].input, config, a)

---------------------------------------------------------------------------
(* C3 *)

\* what a step that runs Delete does
C3_DeleteStep ==
    DeleteRan =>
        /\ Len(calls') = 1
        /\ calls'[1].api = DeleteApi
        /\ calls'[1].id = d.id
        /\ d'.id = d.id /\ d'.attrs = d.attrs
        /\ pc' = "idle"
        /\ ret' = IF calls'[1].err \in {"nil", ErrCodeResourceNotFoundException}
                  THEN NoError
                  ELSE Errorf(ret'.msg, calls'[1].err)

\* C3: Delete of either resource issues exactly one remote call, the delete call for
\* the ARN held in the resource ID, and never writes to the resource state; a
\* ResourceNotFoundException from it is reported as success, any other error is
\* returned to the caller.
C3_Delete == [][C3_DeleteStep]_vars

\* C3 witness: Delete of a resource that is already gone has returned success

C3_Witness ==
    /\ op = "Delete" /\ Returned /\ ret = NoError
    /\ calls[1].err = ErrCodeResourceNotFoundException
    /\ d.id # ""

---------------------------------------------------------------------------
(* C4 *)

IsTagCall(c) == c.api = "ImagebuilderUpdateTags"

\* what a step of Update does: its own part, then the Read it ends with
C4_UpdateStep ==
    /\ UpdateRan =>
          LET o == d.attrs.tags
              n == d'.attrs.tags
          IN  /\ d'.id = d.id
              /\ IF o # n
                 THEN /\ Len(calls') = 1 /\ IsTagCall(calls'[1])
                      /\ calls'[1].id = d.id
                      /\ calls'[1].input = [o |-> o, n |-> n]
                      /\ IF calls'[1].err # "nil"
                         THEN pc' = "idle" /\ ret'.done /\ ret'.err
                              /\ ret'.cause = calls'[1].err
                         ELSE pc' = "read" /\ ~ret'.done
                 ELSE calls' = <<>> /\ pc' = "read" /\ ~ret'.done
    /\ (op = "Update" /\ pc = "read") =>
          /\ op' = "Update" /\ pc' = "idle" /\ ret'.done
          /\ calls' = Append(calls, calls'[Len(calls')])
          /\ calls'[Len(calls')].api = GetApi
          /\ calls'[Len(calls')].id = d.id

\* C4: Update of either resource calls the tag-update helper iff the tags attribute
\* changed, passing the old and the new tag maps for the current resource ID, and makes
\* no other mutating remote call; when the tag update fails Update returns the error
\* without the Read, and otherwise it always finishes with a Read of the resource.
C4_Update == [][C4_UpdateStep]_vars

\* C4 witness: an Update that changed the tags has updated them and read the resource

C4_Witness ==
    /\ op = "Update" /\ Returned /\ ret = NoError
    /\ Len(calls) = 2 /\ IsTagCall(calls[1]) /\ calls[2].api = GetApi
    /\ calls[1].input.o # calls[1].input.n

\* an Update that left the tags unchanged has only read the resource
C4_WitnessUnchanged ==
    /\ op = "Update" /\ Returned /\ ret = NoError
    /\ Apis(calls) = <<GetApi>>

---------------------------------------------------------------------------
(* C5 *)

\* the image's Create alone, with the progress its blocking calls guarantee: the
\* waiter keeps polling and GetImage returns
CreateNext == ImageCreate \/ ImageCreateWait \/ ImageReadCalled

CreateInit == Init /\ IsImage

CreateSpec ==
    /\ CreateInit
    /\ [][CreateNext]_vars
    /\ WF_vars(ImageCreateWait)
    /\ WF_vars(ImageReadCalled)

CreateRunning == IsImage /\ op = "Create" /\ ~ret.done

\* C5: the image's Create always terminates: whatever statuses the remote image goes
\* through, every execution of Create eventually returns success or an error.
C5_CreateTerminates == CreateRunning ~> Returned

\* C5 witness: Create has returned the waiter's timeout, the image never having left
\* its pending statuses
C5_Witness ==
    /\ IsImage /\ op = "Create" /\ Returned /\ ret.err
    /\ ret.cause = "timeout while waiting for state"
    /\ elapsed >= CreateTimeout

---------------------------------------------------------------------------
(* C7 *)

\* Read was invoked at the end of Create, on a newly created resource
ReadOfNewResource == pc = "read" /\ op = "Create"

NotFound(r) == r.err = ErrCodeResourceNotFoundException

\* the get call returned no error but nothing to read
EmptyResponse(r) ==
    /\ r.err = "nil"
    /\ \/ r.output.nil
       \/ IF IsImage THEN r.output.Image.nil ELSE r.output.ContainerRecipe.nil

\* what a step that runs Read to its return does when it gets no object to read
C7_ReadStep ==
    ReadRan =>
        /\ (NotFound(resp') /\ ~ReadOfNewResource) =>
              /\ d'.id = "" /\ d'.attrs = d.attrs
              /\ ret' = NoError
        /\ (NotFound(resp') /\ ReadOfNewResource) =>
              /\ ret'.err /\ ret'.cause = ErrCodeResourceNotFoundException
              /\ d'.id = d.id /\ d'.attrs = d.attrs
        /\ ((resp'.err # "nil" /\ ~NotFound(resp')) \/ EmptyResponse(resp')) =>
              /\ ret'.err
              /\ ret'.cause = IF resp'.err # "nil" THEN resp'.err ELSE "empty response"
              /\ d'.id = d.id /\ d'.attrs = d.attrs

\* C7: when the get call of Read fails with ResourceNotFoundException and the
\* resource is not newly created, Read clears the ID, writes no other attribute and
\* returns no error; on a newly created resource the not-found error is returned and
\* the ID left set; any other get error or an empty response is returned as an error
\* with the ID and all attributes unchanged.
C7_ReadNotFound == [][C7_ReadStep]_vars

\* C7 witness: Read of a tracked resource that is gone has cleared the ID and kept
\* the attributes

C7_Witness ==
    /\ op = "Read" /\ Returned /\ ret = NoError
    /\ NotFound(resp) /\ d.id = ""
    /\ d.attrs.arn # ""

\* the Read at the end of Create has returned the not-found error, the ID still set
C7_WitnessNewResource ==
    /\ op = "Create" /\ Returned /\ ret.err
    /\ NotFound(resp) /\ d.id # ""

---------------------------------------------------------------------------
(* C8 *)

ImageCreateReturned == IsImage /\ op = "Create" /\ Returned

\* CreateImage returned without error and with a non-nil output
CreateImageSucceeded == calls[1].err = "nil" /\ ~calls[1].output.nil

\* C8 as claimed: after Create returns the ID is set iff CreateImage returned without
\* error and with a non-nil output, and then equals the output's ImageBuildVersionArn;
\* a CreateImage error or empty response leaves the ID empty with no waiter and no
\* GetImage call; a later waiter or GetImage failure keeps the ID.
C8_IdSetIffCreated ==
    ImageCreateReturned =>
        /\ d.id # "" <=> CreateImageSucceeded
        /\ CreateImageSucceeded => d.id = calls[1].output.ImageBuildVersionArn
        /\ ~CreateImageSucceeded => Apis(calls) = <<"CreateImage">>

\* C8 as amended: the ID is aws.StringValue of the output's ImageBuildVersionArn, so
\* it is non-empty iff CreateImage also returned a non-nil, non-empty ARN.
C8_IdAfterCreate ==
    ImageCreateReturned =>
        /\ d.id # "" <=>
              /\ CreateImageSucceeded
              /\ calls[1].output.ImageBuildVersionArn \notin {NilStr, ""}
        /\ CreateImageSucceeded =>
              /\ d.id = StringValue(calls[1].output.ImageBuildVersionArn)
              /\ Len(calls) >= 2 /\ calls[2].id = d.id
        /\ ~CreateImageSucceeded => d.id = "" /\ Apis(calls) = <<"CreateImage">>

\* C8 witness: Create has returned GetImage's error with the ID set to the ARN that
\* CreateImage returned
C8_Witness ==
    /\ ImageCreateReturned /\ ret.err
    /\ Len(calls) = 3 /\ calls[3].err = "ServiceException"
    /\ d.id = calls[1].output.ImageBuildVersionArn /\ d.id # ""

\* CreateImage has returned an output without an ARN and the ID is empty
C8_WitnessNilArn ==
    /\ ImageCreateReturned /\ CreateImageSucceeded
    /\ calls[1].output.ImageBuildVersionArn = NilStr /\ d.id = ""

---------------------------------------------------------------------------
(* C9 *)

\* this step ran the image's Read and it got an image
ImageReadSucceeded ==
    /\ IsImage /\ ReadRan
    /\ resp'.err = "nil" /\ ~resp'.output.nil /\ ~resp'.output.Image.nil

\* the attribute that takes the Arn of each object of the response
ArnAttribute ==
    [ContainerRecipe |-> "container_recipe_arn",
     DistributionConfiguration |-> "distribution_configuration_arn",
     ImageRecipe |-> "image_recipe_arn",
     InfrastructureConfiguration |-> "infrastructure_configuration_arn"]

\* the four Arn attributes keep their value when the object is absent; the two blocks
\* are overwritten with nil when absent; the scalars take the response value
ReadFrame(image) ==
    /\ ret' = NoError /\ d'.id = d.id
    /\ \A o \in DOMAIN ArnAttribute :
          d'.attrs[ArnAttribute[o]] =
              IF image[o].nil THEN d.attrs[ArnAttribute[o]] ELSE image[o].Arn
    /\ image.ImageTestsConfiguration.nil => d'.attrs.image_tests_configuration = NilList
    /\ ~image.ImageTestsConfiguration.nil =>
          Len(d'.attrs.image_tests_configuration.elems) = 1
    /\ image.OutputResources.nil => d'.attrs.output_resources = NilList
    /\ ~image.OutputResources.nil => Len(d'.attrs.output_resources.elems) = 1
    /\ d'.attrs.arn = image.Arn
    /\ d'.attrs.date_created = image.DateCreated
    /\ d'.attrs.enhanced_image_metadata_enabled =
           (image.EnhancedImageMetadataEnabled = "true")
    /\ d'.attrs.name = image.Name
    /\ d'.attrs.platform = image.Platform
    /\ d'.attrs.os_version = image.OsVersion
    /\ d'.attrs.version = image.Version

\* the keys of the response's tags that Read keeps: neither AWS system tags nor tags
\* the provider is configured to ignore
KeptTagKeys(tags) ==
    {k \in DOMAIN tags :
        /\ ~(Len(k) >= 4 /\ SubSeq(k, 1, 4) = "aws:")
        /\ k \notin ignoreTags.Keys
        /\ \A p \in ignoreTags.KeyPrefixes : ~(Len(k) >= Len(p) /\ SubSeq(k, 1, Len(p)) = p)}

\* a successful Read that writes the response's tags as they are
C9_StepAsClaimed ==
    ImageReadSucceeded =>
        /\ ReadFrame(resp'.output.Image)
        /\ d'.attrs.tags = resp'.output.Image.Tags

\* C9 as claimed: a successful Read keeps each of the four Arn attributes whose
\* object the response lacks, overwrites image_tests_configuration and
\* output_resources with nil when the response lacks them, and overwrites every other
\* read attribute, tags among them, with the response value.
C9_ReadFrameTagsVerbatim == [][C9_StepAsClaimed]_vars

\* a successful Read that writes the response's tags less the ignored ones
C9_Step ==
    ImageReadSucceeded =>
        /\ ReadFrame(resp'.output.Image)
        /\ DOMAIN d'.attrs.tags = KeptTagKeys(resp'.output.Image.Tags)
        /\ \A k \in DOMAIN d'.attrs.tags : d'.attrs.tags[k] = resp'.output.Image.Tags[k]

\* C9 as amended: as claimed, except that tags is overwritten with the response's
\* tags less the AWS system tags (key prefix "aws:") and the tags the provider is
\* configured to ignore.
C9_ReadFrame == [][C9_Step]_vars

\* C9 witness: a Read whose response has no container recipe has kept
\* container_recipe_arn and overwritten the other attributes

C9_Witness ==
    /\ IsImage /\ op = "Read" /\ Returned /\ ret = NoError /\ resp.err = "nil"
    /\ resp.output.Image.ContainerRecipe.nil
    /\ d.attrs.container_recipe_arn = "arn:container-recipe/cfg"
    /\ d.attrs.image_recipe_arn = resp.output.Image.ImageRecipe.Arn
    /\ d.attrs.arn = resp.output.Image.Arn

\* a Read whose response has no output resources has set output_resources to nil
C9_WitnessBlocksCleared ==
    /\ IsImage /\ op = "Read" /\ Returned /\ ret = NoError /\ resp.err = "nil"
    /\ resp.output.Image.OutputResources.nil
    /\ d.attrs.output_resources = NilList
    /\ Len(d.attrs.image_tests_configuration.elems) = 1

====
